---- MODULE Spec2Model ----
(***************************************************************************)
(* Model of the metrics engine of metrix (src/src/metrics_calculator.py):  *)
(* the per-pair calculators calculate_wer_metrics / calculate_cer_metrics, *)
(* get_alignment and the batch aggregator calculate_metrics_batch, with    *)
(* the part of jiwer / rapidfuzz they call (process_words,                 *)
(* process_characters, Levenshtein.editops), and of the wer and cer        *)
(* commands (src/metrix.py) that feed it: load_inputs                      *)
(* (src/src/input_handler.py), transform_text                              *)
(* (src/src/text_transformer.py) and apply_adjustments                     *)
(* (src/src/adjustments_processor.py).                                     *)
(*                                                                         *)
(* A text is a sequence of characters.  A float is a reduced fraction      *)
(* <<numerator, denominator>>: 0.0 is <<0, 1>> and 1.0 is <<1, 1>>.        *)
(***************************************************************************)
EXTENDS Integers, Sequences, FiniteSets, TLC

\* ------------------------------------------------------------------------
\* Bounds
\* ------------------------------------------------------------------------
\* longest text handed to a direct call of a per-pair function
MaxLen == 3
\* longest reference / hypothesis list handed to calculate_metrics_batch
MaxPairs == 3
\* most characters the texts of one such list have together
MaxBatchChars == 2
\* most lines (rows) an input file of the command line has
MaxLines == 2

\* ------------------------------------------------------------------------
\* Texts
\* ------------------------------------------------------------------------
Letters == {"a", "b"}
\* characters for which str.isspace() holds and which the regex \s matches
Whitespace == {" ", "\t"}
Chars == Letters \cup Whitespace

SeqsUpTo(S, n) == UNION {[1..k -> S] : k \in 0..n}
Texts(n) == SeqsUpTo(Chars, n)

isspace(c) == c \in Whitespace

\* float(n) / float(d), d > 0, as a reduced fraction
RECURSIVE GCD(_, _)
GCD(x, y) == IF y = 0 THEN x ELSE GCD(y, x % y)
Float(n, d) == LET g == GCD(n, d) IN <<n \div g, d \div g>>
Zero == Float(0, 1)
One == Float(1, 1)

\* ------------------------------------------------------------------------
\* Python str methods
\* ------------------------------------------------------------------------
RECURSIVE lstrip(_)
lstrip(s) == IF s # <<>> /\ isspace(Head(s)) THEN lstrip(Tail(s)) ELSE s

RECURSIVE rstrip(_)
rstrip(s) ==
    IF s # <<>> /\ isspace(s[Len(s)]) THEN rstrip(SubSeq(s, 1, Len(s) - 1)) ELSE s

\* str.strip()
strip(s) == rstrip(lstrip(s))

\* left-to-right scan splitting s at every character of seps; cur is the
\* field being read, acc the fields read so far; empty fields are dropped
RECURSIVE split_scan(_, _, _, _)
split_scan(s, seps, cur, acc) ==
    IF s = <<>>
    THEN IF cur = <<>> THEN acc ELSE Append(acc, cur)
    ELSE IF Head(s) \in seps
         THEN split_scan(Tail(s), seps, <<>>,
                         IF cur = <<>> THEN acc ELSE Append(acc, cur))
         ELSE split_scan(Tail(s), seps, Append(cur, Head(s)), acc)

\* variant of split that knows the space as the only separator
split_on_space(s) == split_scan(s, {" "}, <<>>, <<>>)

\* str.split(): split on runs of whitespace, no empty fields
split(s) == split_scan(s, Whitespace, <<>>, <<>>)

\* ------------------------------------------------------------------------
\* jiwer transforms (wer_default, cer_default)
\* ------------------------------------------------------------------------
\* length of the whitespace run at the head of s
RECURSIVE space_run(_)
space_run(s) == IF s # <<>> /\ isspace(Head(s)) THEN 1 + space_run(Tail(s)) ELSE 0

\* RemoveMultipleSpaces: re.sub(r"\s\s+", " ", s); a run of two or more
\* whitespace characters becomes one space, a single one is kept as it is
RECURSIVE RemoveMultipleSpaces(_)
RemoveMultipleSpaces(s) ==
    IF s = <<>> THEN <<>>
    ELSE LET k == space_run(s) IN
         IF k >= 2
         THEN <<" ">> \o RemoveMultipleSpaces(SubSeq(s, k + 1, Len(s)))
         ELSE <<Head(s)>> \o RemoveMultipleSpaces(Tail(s))

\* ReduceToListOfListOfWords: s.split(" ") without the empty words
ReduceToListOfListOfWords(s) == split_scan(s, {" "}, <<>>, <<>>)

\* ReduceToListOfListOfChars: one unit per character
ReduceToListOfListOfChars(s) == [i \in 1..Len(s) |-> <<s[i]>>]

\* wer_default = Compose([RemoveMultipleSpaces(), Strip(), ReduceToListOfListOfWords()])
wer_default(s) == ReduceToListOfListOfWords(strip(RemoveMultipleSpaces(s)))

\* cer_default = Compose([Strip(), ReduceToListOfListOfChars()])
cer_default(s) == ReduceToListOfListOfChars(strip(s))

\* ------------------------------------------------------------------------
\* rapidfuzz.distance.Levenshtein.editops
\* ------------------------------------------------------------------------
Min2(x, y) == IF x <= y THEN x ELSE y

RECURSIVE common_prefix(_, _)
common_prefix(s1, s2) ==
    IF s1 # <<>> /\ s2 # <<>> /\ Head(s1) = Head(s2)
    THEN 1 + common_prefix(Tail(s1), Tail(s2))
    ELSE 0

RECURSIVE common_suffix(_, _)
common_suffix(s1, s2) ==
    IF s1 # <<>> /\ s2 # <<>> /\ s1[Len(s1)] = s2[Len(s2)]
    THEN 1 + common_suffix(SubSeq(s1, 1, Len(s1) - 1), SubSeq(s2, 1, Len(s2) - 1))
    ELSE 0

\* variant of lev_row that knows no substitution: a unit is replaced by a
\* deletion and an insertion
RECURSIVE lev_row_no_substitution(_, _, _, _)
lev_row_no_substitution(prev, c, s2, acc) ==
    IF Len(acc) = Len(s2) + 1 THEN acc
    ELSE LET j == Len(acc)
             sub == prev[j] + (IF c = s2[j] THEN 0 ELSE 2)
             del == prev[j + 1] + 1
             ins == acc[j] + 1
         IN lev_row_no_substitution(prev, c, s2, Append(acc, Min2(sub, Min2(del, ins))))

\* row i of the distance table from row i-1 (prev); c is s1[i]; acc holds
\* D[i][0..Len(acc)-1]
RECURSIVE lev_row(_, _, _, _)
lev_row(prev, c, s2, acc) ==
    IF Len(acc) = Len(s2) + 1 THEN acc
    ELSE LET j == Len(acc)
             sub == prev[j] + (IF c = s2[j] THEN 0 ELSE 1)
             del == prev[j + 1] + 1
             ins == acc[j] + 1
         IN lev_row(prev, c, s2, Append(acc, Min2(sub, Min2(del, ins))))

RECURSIVE lev_rows(_, _, _)
lev_rows(s1, s2, rows) ==
    IF Len(rows) = Len(s1) + 1 THEN rows
    ELSE LET i == Len(rows) IN
         lev_rows(s1, s2,
                  Append(rows, lev_row(rows[i], s1[i], s2, <<rows[i][1] + 1>>)))

\* the distance table the bit vectors VP / VN of _matrix encode:
\* levenshtein_matrix(s1, s2)[i + 1][j + 1] is the distance between the
\* first i units of s1 and the first j units of s2
levenshtein_matrix(s1, s2) ==
    lev_rows(s1, s2, << [j \in 1..(Len(s2) + 1) |-> j - 1] >>)

\* variant of recover_alignment that takes the diagonal for equal units only
\* and removes and inserts a unit where it would have to replace one
RECURSIVE recover_alignment_without_replace(_, _, _, _, _, _)
recover_alignment_without_replace(M, s1, s2, col, row, acc) ==
    IF row # 0 /\ col # 0 /\ s1[col] = s2[row]
    THEN recover_alignment_without_replace(M, s1, s2, col - 1, row - 1, <<"equal">> \o acc)
    ELSE IF col # 0
         THEN recover_alignment_without_replace(M, s1, s2, col - 1, row, <<"delete">> \o acc)
         ELSE IF row # 0
              THEN recover_alignment_without_replace(M, s1, s2, col, row - 1, <<"insert">> \o acc)
              ELSE acc

\* the walk back from (col, row) = (Len(s1), Len(s2)); acc is the list of
\* operations found so far, one tag per step, matches included.
\*   VP bit (row-1, col-1) is set  iff  D[col][row] = D[col-1][row] + 1
\*   VN bit (row-1, col-1) is set  iff  D[col][row] = D[col-1][row] - 1
RECURSIVE recover_alignment(_, _, _, _, _, _)
recover_alignment(M, s1, s2, col, row, acc) ==
    IF row # 0 /\ col # 0
    THEN IF M[col + 1][row + 1] = M[col][row + 1] + 1
         THEN recover_alignment(M, s1, s2, col - 1, row, <<"delete">> \o acc)
         ELSE IF row - 1 # 0 /\ M[col + 1][row] = M[col][row] - 1
              THEN recover_alignment(M, s1, s2, col, row - 1, <<"insert">> \o acc)
              ELSE recover_alignment(M, s1, s2, col - 1, row - 1,
                       <<IF s1[col] # s2[row] THEN "replace" ELSE "equal">> \o acc)
    ELSE IF col # 0
         THEN recover_alignment(M, s1, s2, col - 1, row, <<"delete">> \o acc)
         ELSE IF row # 0
              THEN recover_alignment(M, s1, s2, col, row - 1, <<"insert">> \o acc)
              ELSE acc

\* editops(s1, s2), written out with one tag per aligned position: the
\* common prefix and suffix are matched first, the rest is walked back
editops(s1, s2) ==
    LET p == common_prefix(s1, s2)
        r1 == SubSeq(s1, p + 1, Len(s1))
        r2 == SubSeq(s2, p + 1, Len(s2))
        q == common_suffix(r1, r2)
        t1 == SubSeq(r1, 1, Len(r1) - q)
        t2 == SubSeq(r2, 1, Len(r2) - q)
        M == levenshtein_matrix(t1, t2)
    IN [i \in 1..p |-> "equal"]
       \o recover_alignment(M, t1, t2, Len(t1), Len(t2), <<>>)
       \o [i \in 1..q |-> "equal"]

\* Opcodes.from_editops: consecutive operations with the same tag form one
\* chunk; i and j count the reference and hypothesis units consumed so far
RECURSIVE tag_run(_, _)
tag_run(tags, tag) ==
    IF tags # <<>> /\ Head(tags) = tag THEN 1 + tag_run(Tail(tags), tag) ELSE 0

\* jiwer's name of a rapidfuzz tag
chunk_type(tag) == IF tag = "replace" THEN "substitute" ELSE tag

RECURSIVE as_opcodes(_, _, _, _)
as_opcodes(tags, i, j, acc) ==
    IF tags = <<>> THEN acc
    ELSE LET tag == Head(tags)
             n == tag_run(tags, tag)
             di == IF tag \in {"equal", "replace", "delete"} THEN n ELSE 0
             dj == IF tag \in {"equal", "replace", "insert"} THEN n ELSE 0
         IN as_opcodes(SubSeq(tags, n + 1, Len(tags)), i + di, j + dj,
                Append(acc, [type |-> chunk_type(tag),
                             ref_start_idx |-> i, ref_end_idx |-> i + di,
                             hyp_start_idx |-> j, hyp_end_idx |-> j + dj]))

\* ------------------------------------------------------------------------
\* jiwer.process_words / jiwer.process_characters
\* ------------------------------------------------------------------------
\* number of units the chunks of one type cover
RECURSIVE chunk_total(_, _)
chunk_total(chunks, type) ==
    IF chunks = <<>> THEN 0
    ELSE LET c == Head(chunks)
             n == IF c.type # type THEN 0
                  ELSE IF type = "insert" THEN c.hyp_end_idx - c.hyp_start_idx
                  ELSE c.ref_end_idx - c.ref_start_idx
         IN n + chunk_total(Tail(chunks), type)

\* the measures of process_words from the counts H, S, D, I of the one
\* sentence, with the edge case of a reference without words
word_output(H, S, D, I, num_rf_words, num_hp_words, chunks) ==
    [hits |-> H, substitutions |-> S, deletions |-> D, insertions |-> I,
     wer |-> IF num_rf_words = 0
             THEN IF num_hp_words = 0 THEN Float(0, 1) ELSE Float(num_hp_words, 1)
             ELSE Float(S + D + I, H + S + D),
     alignments |-> <<chunks>>]

\* the counts of the chunks of the one sentence
count_chunks(chunks, num_rf_words, num_hp_words) ==
    word_output(chunk_total(chunks, "equal"), chunk_total(chunks, "substitute"),
                chunk_total(chunks, "delete"), chunk_total(chunks, "insert"),
                num_rf_words, num_hp_words, chunks)

\* the body of process_words after the transforms: ref and hyp are the unit
\* sequences of the one sentence passed in
process_units(ref, hyp) ==
    count_chunks(as_opcodes(editops(ref, hyp), 0, 0, <<>>), Len(ref), Len(hyp))

\* variant of transform_mismatch that also rejects a reference sentence
\* without words
transform_rejects_empty(ref_transformed, hyp_transformed) ==
    \/ Len(ref_transformed) # Len(hyp_transformed)
    \/ \E i \in 1..Len(ref_transformed) : ref_transformed[i] = <<>>

\* the check process_words makes on the transformed input, a list of
\* sentences on each side: it raises ValueError unless the two lists have
\* the same number of sentences.  (A sentence without words is accepted.)
transform_mismatch(ref_transformed, hyp_transformed) ==
    Len(ref_transformed) # Len(hyp_transformed)

\* process_words(reference, hypothesis) raises
process_words_raises(reference, hypothesis) ==
    transform_mismatch(<<wer_default(reference)>>, <<wer_default(hypothesis)>>)

\* process_characters(reference, hypothesis) raises
process_characters_raises(reference, hypothesis) ==
    transform_mismatch(<<cer_default(reference)>>, <<cer_default(hypothesis)>>)

process_words(reference, hypothesis) ==
    process_units(wer_default(reference), wer_default(hypothesis))

\* CharacterOutput from the WordOutput of the character units
character_output(result) ==
    [hits |-> result.hits, substitutions |-> result.substitutions,
     deletions |-> result.deletions, insertions |-> result.insertions,
     cer |-> result.wer, alignments |-> result.alignments]

process_characters(reference, hypothesis) ==
    character_output(process_units(cer_default(reference), cer_default(hypothesis)))

\* ------------------------------------------------------------------------
\* metrics_calculator.py: the per-pair functions
\* ------------------------------------------------------------------------
\* lines 58-80: the dictionary built from jiwer's output and the word count
\* of the reference
wer_metrics(output, word_count) ==
    [wer |-> output.wer,
     word_accuracy |-> IF word_count > 0 THEN Float(output.hits, word_count) ELSE Zero,
     deletions |-> output.deletions, insertions |-> output.insertions,
     substitutions |-> output.substitutions, correct |-> output.hits,
     word_count |-> word_count]

\* lines 135-156: the dictionary built from jiwer's output and the length of
\* the reference
cer_metrics(output, character_count) ==
    [cer |-> output.cer,
     character_accuracy |->
         IF character_count > 0 THEN Float(output.hits, character_count) ELSE Zero,
     deletions |-> output.deletions, insertions |-> output.insertions,
     substitutions |-> output.substitutions, correct |-> output.hits,
     character_count |-> character_count]

\* variant of calculate_wer_metrics that takes only the empty text, not the
\* whitespace-only one, for a text without content
calculate_wer_metrics_unstripped(reference, hypothesis) ==
    IF reference = <<>>
    THEN IF hypothesis = <<>>
         THEN [wer |-> Zero, word_accuracy |-> One, deletions |-> 0,
               insertions |-> 0, substitutions |-> 0, correct |-> 0,
               word_count |-> 0]
         ELSE [wer |-> One, word_accuracy |-> Zero, deletions |-> 0,
               insertions |-> Len(split(hypothesis)), substitutions |-> 0,
               correct |-> 0, word_count |-> 0]
    ELSE wer_metrics(process_words(reference, hypothesis), Len(split(reference)))

calculate_wer_metrics(reference, hypothesis) ==
    IF strip(reference) = <<>>
    THEN IF strip(hypothesis) = <<>>
         THEN [wer |-> Zero, word_accuracy |-> One, deletions |-> 0,
               insertions |-> 0, substitutions |-> 0, correct |-> 0,
               word_count |-> 0]
         ELSE [wer |-> One, word_accuracy |-> Zero, deletions |-> 0,
               insertions |-> Len(split(hypothesis)), substitutions |-> 0,
               correct |-> 0, word_count |-> 0]
    ELSE wer_metrics(process_words(reference, hypothesis), Len(split(reference)))

\* variant of calculate_cer_metrics that takes only the empty text, not the
\* whitespace-only one, for a text without content
calculate_cer_metrics_unstripped(reference, hypothesis) ==
    IF reference = <<>>
    THEN IF hypothesis = <<>>
         THEN [cer |-> Zero, character_accuracy |-> One, deletions |-> 0,
               insertions |-> 0, substitutions |-> 0, correct |-> 0,
               character_count |-> 0]
         ELSE [cer |-> One, character_accuracy |-> Zero, deletions |-> 0,
               insertions |-> Len(hypothesis), substitutions |-> 0,
               correct |-> 0, character_count |-> 0]
    ELSE cer_metrics(process_characters(reference, hypothesis), Len(reference))

calculate_cer_metrics(reference, hypothesis) ==
    IF strip(reference) = <<>>
    THEN IF strip(hypothesis) = <<>>
         THEN [cer |-> Zero, character_accuracy |-> One, deletions |-> 0,
               insertions |-> 0, substitutions |-> 0, correct |-> 0,
               character_count |-> 0]
         ELSE [cer |-> One, character_accuracy |-> Zero, deletions |-> 0,
               insertions |-> Len(hypothesis), substitutions |-> 0,
               correct |-> 0, character_count |-> 0]
    ELSE cer_metrics(process_characters(reference, hypothesis), Len(reference))

\* variant of get_alignment that hands the two texts over in the wrong order
get_alignment_swapped(reference, hypothesis, mt) ==
    IF mt = "wer"
    THEN process_words(hypothesis, reference).alignments
    ELSE process_characters(hypothesis, reference).alignments

get_alignment(reference, hypothesis, mt) ==
    IF mt = "wer"
    THEN process_words(reference, hypothesis).alignments
    ELSE process_characters(reference, hypothesis).alignments

\* the call raises instead of returning (lines 55-56 and 81-83, 132-133 and
\* 157-159: what process_words raises is re-raised as ValueError; get_alignment
\* has no handler)
calculate_wer_metrics_raises(reference, hypothesis) ==
    strip(reference) # <<>> /\ process_words_raises(reference, hypothesis)

calculate_cer_metrics_raises(reference, hypothesis) ==
    strip(reference) # <<>> /\ process_characters_raises(reference, hypothesis)

get_alignment_raises(reference, hypothesis, mt) ==
    IF mt = "wer"
    THEN process_words_raises(reference, hypothesis)
    ELSE process_characters_raises(reference, hypothesis)

\* ------------------------------------------------------------------------
\* Python str and re, as the command line uses them
\* ------------------------------------------------------------------------
\* ord() of the characters that occur in IDs and texts
ord(c) ==
    CASE c = "\t" -> 9 [] c = " " -> 32 [] c = "'" -> 39 [] c = "-" -> 45
      [] c = "." -> 46 [] c = "0" -> 48 [] c = "1" -> 49 [] c = "2" -> 50
      [] c = "A" -> 65 [] c = "B" -> 66 [] c = "a" -> 97 [] c = "b" -> 98

\* s < t for two str: the first differing character decides, a proper prefix
\* is smaller
RECURSIVE str_lt(_, _)
str_lt(s, t) ==
    IF t = <<>> THEN FALSE
    ELSE IF s = <<>> THEN TRUE
    ELSE IF Head(s) = Head(t) THEN str_lt(Tail(s), Tail(t))
    ELSE ord(Head(s)) < ord(Head(t))

\* sorted(S) of a set of str
RECURSIVE sorted(_)
sorted(S) ==
    IF S = {} THEN <<>>
    ELSE LET least == CHOOSE s \in S : \A t \in S \ {s} : str_lt(s, t)
         IN <<least>> \o sorted(S \ {least})

\* str.lower(), one character
lower_char(c) == IF c = "A" THEN "a" ELSE IF c = "B" THEN "b" ELSE c

\* str.lower()
lower(s) == [i \in 1..Len(s) |-> lower_char(s[i])]

\* str.replace(old, new) for a single character old; new is a str
RECURSIVE replace(_, _, _)
replace(s, old, new) ==
    IF s = <<>> THEN <<>>
    ELSE (IF Head(s) = old THEN new ELSE <<Head(s)>>) \o replace(Tail(s), old, new)

\* ''.join(char for char in s if char not in removed)
RECURSIVE without_chars(_, _)
without_chars(s, removed) ==
    IF s = <<>> THEN <<>>
    ELSE (IF Head(s) \in removed THEN <<>> ELSE <<Head(s)>>)
         \o without_chars(Tail(s), removed)

\* re.sub(r'\s+', ' ', s): every run of whitespace becomes one space
RECURSIVE sub_whitespace_runs(_)
sub_whitespace_runs(s) ==
    IF s = <<>> THEN <<>>
    ELSE IF isspace(Head(s)) THEN <<" ">> \o sub_whitespace_runs(lstrip(s))
    ELSE <<Head(s)>> \o sub_whitespace_runs(Tail(s))

\* characters the regex \w matches
WordChars == {"a", "b", "A", "B", "0", "1", "2"}

\* the regex \b holds between character k and character k + 1 of text
word_boundary(text, k) ==
    (k >= 1 /\ text[k] \in WordChars) # (k < Len(text) /\ text[k + 1] \in WordChars)

\* \b search \b matches text at position i ((?i) unless case_sensitive)
pattern_matches_at(text, i, search, case_sensitive) ==
    /\ i + Len(search) - 1 <= Len(text)
    /\ \A j \in 1..Len(search) :
          IF case_sensitive THEN text[i + j - 1] = search[j]
          ELSE lower_char(text[i + j - 1]) = lower_char(search[j])
    /\ word_boundary(text, i - 1)
    /\ word_boundary(text, i + Len(search) - 1)

\* re.sub(\b search \b, replacement, text) from position i on, search not
\* empty: leftmost matches, not overlapping, the replacement is not rescanned
RECURSIVE re_sub_from(_, _, _, _, _)
re_sub_from(text, i, search, replacement, case_sensitive) ==
    IF i > Len(text) THEN <<>>
    ELSE IF pattern_matches_at(text, i, search, case_sensitive)
    THEN replacement \o re_sub_from(text, i + Len(search), search, replacement, case_sensitive)
    ELSE <<text[i]>> \o re_sub_from(text, i + 1, search, replacement, case_sensitive)

re_sub(search, replacement, text, case_sensitive) ==
    re_sub_from(text, 1, search, replacement, case_sensitive)

\* ------------------------------------------------------------------------
\* text_transformer
\* ------------------------------------------------------------------------
\* string.punctuation without - ' " (the characters of it that occur here)
punctuation_to_remove == {"."}

after_case(text, case_sensitive) ==
    IF case_sensitive THEN text ELSE lower(text)
after_hyphens(text, neutralize_hyphens) ==
    IF neutralize_hyphens THEN replace(text, "-", <<" ">>) ELSE text
after_apostrophes(text, neutralize_apostrophes) ==
    IF neutralize_apostrophes THEN replace(text, "'", <<>>) ELSE text
after_punctuation(text, keep_punctuation) ==
    IF keep_punctuation THEN text ELSE without_chars(text, punctuation_to_remove)

\* transform_text(text, case_sensitive, keep_punctuation, neutralize_hyphens,
\* neutralize_apostrophes)
transform_text(text, o) ==
    strip(sub_whitespace_runs(
        after_punctuation(
            after_apostrophes(
                after_hyphens(after_case(text, o.case_sensitive), o.neutralize_hyphens),
                o.neutralize_apostrophes),
            o.keep_punctuation)))

\* apply_basic_transformations(reference, hypothesis, ...)
apply_basic_transformations(ref, hyp, o) ==
    <<transform_text(ref, o), transform_text(hyp, o)>>

\* ------------------------------------------------------------------------
\* adjustments_processor
\* ------------------------------------------------------------------------
\* apply_reference_replacements(text, replacements, case_sensitive);
\* replacements is the dict as its sequence of <<search, replace>> items
RECURSIVE apply_reference_replacements(_, _, _)
apply_reference_replacements(text, replacements, case_sensitive) ==
    IF replacements = <<>> THEN text
    ELSE apply_reference_replacements(
             re_sub(Head(replacements)[1], Head(replacements)[2], text, case_sensitive),
             Tail(replacements), case_sensitive)

\* the inner loop of apply_equivalences: every variant but the canonical
\* form becomes the canonical form
RECURSIVE normalize_variants(_, _, _, _)
normalize_variants(text, canonical, variants, case_sensitive) ==
    IF variants = <<>> THEN text
    ELSE normalize_variants(
             IF Head(variants) = canonical THEN text
             ELSE re_sub(Head(variants), canonical, text, case_sensitive),
             canonical, Tail(variants), case_sensitive)

\* apply_equivalences(text, equivalences, case_sensitive); equivalences is
\* the dict as the sequence of its values
RECURSIVE apply_equivalences(_, _, _)
apply_equivalences(text, equivalences, case_sensitive) ==
    IF equivalences = <<>> THEN text
    ELSE apply_equivalences(
             IF Head(equivalences) = <<>> THEN text
             ELSE normalize_variants(text, Head(equivalences)[1],
                                     Tail(Head(equivalences)), case_sensitive),
             Tail(equivalences), case_sensitive)

\* the loop of apply_clean_up
RECURSIVE remove_items(_, _, _)
remove_items(text, clean_up_list, case_sensitive) ==
    IF clean_up_list = <<>> THEN text
    ELSE remove_items(re_sub(Head(clean_up_list), <<>>, text, case_sensitive),
                      Tail(clean_up_list), case_sensitive)

\* apply_clean_up(text, clean_up_list, case_sensitive)
apply_clean_up(text, clean_up_list, case_sensitive) ==
    strip(sub_whitespace_runs(remove_items(text, clean_up_list, case_sensitive)))

\* apply_adjustments: the reference after step 1
adjusted_step1(ref, adjustments) ==
    IF adjustments.reference_replacements # <<>>
    THEN apply_reference_replacements(ref, adjustments.reference_replacements,
                                      adjustments.case_sensitive)
    ELSE ref

\* apply_adjustments: a text after step 2
adjusted_step2(text, adjustments) ==
    IF adjustments.equivalences # <<>>
    THEN apply_equivalences(text, adjustments.equivalences, adjustments.case_sensitive)
    ELSE text

\* apply_adjustments: a text after step 3
adjusted_step3(text, adjustments) ==
    IF adjustments.clean_up # <<>>
    THEN apply_clean_up(text, adjustments.clean_up, adjustments.case_sensitive)
    ELSE text

\* apply_adjustments(reference, hypothesis, adjustments)
apply_adjustments(ref, hyp, adjustments) ==
    <<adjusted_step3(adjusted_step2(adjusted_step1(ref, adjustments), adjustments),
                     adjustments),
      adjusted_step3(adjusted_step2(hyp, adjustments), adjustments)>>

\* ------------------------------------------------------------------------
\* input_handler
\* ------------------------------------------------------------------------
\* A TRN file is the sequence of its lines.  A line is a record: kind
\* "entry" is a line of the file's format ("ID: sentence", or
\* "sentence (ID)" in sclite format) with the ID and the sentence as
\* written, kind "blank" a line that is empty once stripped, kind
\* "malformed" a line the format's parser does not match.
\* A CSV file is its header (fieldnames) and the sequence of its rows.
\* A function that can raise returns [raised, results]; raised is "" or the
\* exception's type.
Returns(results) == [raised |-> "", results |-> results]
Raises(type) == [raised |-> type, results |-> <<>>]

\* the loop of parse_trn_file
RECURSIVE parse_trn_lines(_, _, _)
parse_trn_lines(lines, sclite_format, results) ==
    IF lines = <<>> THEN Returns(results)
    ELSE IF Head(lines).kind = "blank"
    THEN parse_trn_lines(Tail(lines), sclite_format, results)
    ELSE IF Head(lines).kind = "malformed"
    THEN Raises("ValueError")
    ELSE IF sclite_format /\ strip(Head(lines).text) = <<>>
    THEN Raises("ValueError")
    ELSE parse_trn_lines(Tail(lines), sclite_format,
                         Append(results, <<strip(Head(lines).id), strip(Head(lines).text)>>))

\* parse_trn_file(file_path, sclite_format)
parse_trn_file(file_path, sclite_format) ==
    parse_trn_lines(file_path.lines, sclite_format, <<>>)

\* the columns parse_compact_csv requires
required_columns == {"ID", "reference", "hypothesis"}

\* the loop of parse_compact_csv
RECURSIVE parse_csv_rows(_, _)
parse_csv_rows(rows, results) ==
    IF rows = <<>> THEN Returns(results)
    ELSE IF strip(Head(rows).ID) = <<>>
    THEN Raises("ValueError")
    ELSE parse_csv_rows(Tail(rows),
                        Append(results, <<strip(Head(rows).ID), strip(Head(rows).reference),
                                          strip(Head(rows).hypothesis)>>))

\* parse_compact_csv(file_path)
parse_compact_csv(file_path) ==
    IF ~file_path.exists THEN Raises("FileNotFoundError")
    ELSE IF ~(required_columns \subseteq file_path.fieldnames) THEN Raises("ValueError")
    ELSE parse_csv_rows(file_path.rows, <<>>)

\* keys of the dict {id_str: text for id_str, text in items}
dict_keys(items) == {items[i][1] : i \in DOMAIN items}

\* dict.get(key, default) of that dict: the last item of a key is the one
\* the dict keeps
dict_get(items, key, default) ==
    IF key \in dict_keys(items)
    THEN LET last == CHOOSE i \in DOMAIN items :
                        /\ items[i][1] = key
                        /\ \A j \in DOMAIN items : items[j][1] = key => j <= i
         IN items[last][2]
    ELSE default

\* the triples load_inputs builds for the sorted IDs all_ids
triples_of(all_ids, references_parsed, hypotheses_parsed) ==
    [i \in 1..Len(all_ids) |->
        <<all_ids[i], dict_get(references_parsed, all_ids[i], <<>>),
          dict_get(hypotheses_parsed, all_ids[i], <<>>)>>]

\* load_inputs, from the dictionaries on, keeping only the IDs both files have
match_by_id_common(hypotheses_parsed, references_parsed) ==
    triples_of(sorted(dict_keys(hypotheses_parsed) \cap dict_keys(references_parsed)),
               references_parsed, hypotheses_parsed)

\* load_inputs, from the dictionaries on: one triple for each ID of either
\* file
match_by_id(hypotheses_parsed, references_parsed) ==
    triples_of(sorted(dict_keys(hypotheses_parsed) \cup dict_keys(references_parsed)),
               references_parsed, hypotheses_parsed)

\* load_inputs on two TRN files that exist
load_trn_files(hypotheses_parsed, references_parsed) ==
    IF hypotheses_parsed.raised # "" THEN Raises(hypotheses_parsed.raised)
    ELSE IF references_parsed.raised # "" THEN Raises(references_parsed.raised)
    ELSE Returns(match_by_id(hypotheses_parsed.results, references_parsed.results))

\* load_inputs(hypothesis_path, reference_path, compact_input_path,
\* sclite_format); a path that is None has given = FALSE
load_inputs(hypothesis_path, reference_path, compact_input_path, sclite_format) ==
    IF compact_input_path.given
    THEN IF hypothesis_path.given \/ reference_path.given
         THEN Raises("ValueError")
         ELSE parse_compact_csv(compact_input_path)
    ELSE IF ~hypothesis_path.given \/ ~reference_path.given
    THEN Raises("ValueError")
    ELSE IF ~hypothesis_path.exists \/ ~reference_path.exists
    THEN Raises("FileNotFoundError")
    ELSE load_trn_files(parse_trn_file(hypothesis_path, sclite_format),
                        parse_trn_file(reference_path, sclite_format))

\* ------------------------------------------------------------------------
\* State
\* ------------------------------------------------------------------------
VARIABLES
    \* calculate_metrics_batch: arguments
    references, hypotheses, metric_type,
    \* calculate_metrics_batch: position ("idle", "call", "loop", "returned",
    \* "raised") and locals
    pc, alignments, total_correct, total_deletions, total_insertions,
    total_substitutions, total_count,
    \* what the call returned, <<aggregated_metrics, alignments>>, and the
    \* exception it raised
    result, exception,
    \* what the caller keeps of an earlier call with the same arguments
    previous,
    \* what the caller keeps of an earlier call with related arguments, and
    \* how the arguments of this call relate to those ("none", "permuted",
    \* "extended")
    earlier, relation,
    \* a direct call of a per-pair function: arguments, function called,
    \* value returned, exception raised
    reference, hypothesis, called, returned, raised,
    \* a run of the wer or cer command: the command, its options, its
    \* position ("idle", "start", "loaded", "transformed", "without", "with",
    \* "done", "failed") and its locals
    command, hypothesis_path, reference_path, compact_input_path, options,
    adjustments, cli_pc, inputs, refs_transformed, hyps_transformed,
    metrics_without_adjustments, metrics_with_adjustments, final_metrics

batch_vars == <<references, hypotheses, metric_type, pc, alignments,
                total_correct, total_deletions, total_insertions,
                total_substitutions, total_count, result, exception, previous,
                earlier, relation>>
pair_vars == <<reference, hypothesis, called, returned, raised>>
cli_vars == <<command, hypothesis_path, reference_path, compact_input_path,
              options, adjustments, cli_pc, inputs, refs_transformed,
              hyps_transformed, metrics_without_adjustments,
              metrics_with_adjustments, final_metrics>>
vars == <<batch_vars, pair_vars, cli_vars>>

MetricTypes == {"wer", "cer"}

BatchIdle ==
    /\ references = <<>> /\ hypotheses = <<>> /\ metric_type = "wer"
    /\ pc = "idle" /\ alignments = <<>>
    /\ total_correct = 0 /\ total_deletions = 0 /\ total_insertions = 0
    /\ total_substitutions = 0 /\ total_count = 0
    /\ result = <<>> /\ exception = "" /\ previous = <<>>
    /\ earlier = <<>> /\ relation = "none"

PairIdle ==
    /\ reference = <<>> /\ hypothesis = <<>>
    /\ called = "none" /\ returned = <<>> /\ raised = ""

CliIdle ==
    /\ command = "wer"
    /\ hypothesis_path = [given |-> FALSE, exists |-> FALSE, lines |-> <<>>]
    /\ reference_path = [given |-> FALSE, exists |-> FALSE, lines |-> <<>>]
    /\ compact_input_path = [given |-> FALSE, exists |-> FALSE, fieldnames |-> {}, rows |-> <<>>]
    /\ options = [case_sensitive |-> FALSE, keep_punctuation |-> FALSE,
                  neutralize_hyphens |-> FALSE, neutralize_apostrophes |-> FALSE]
    /\ adjustments = [given |-> FALSE, valid |-> FALSE,
                      data |-> [keys |-> {}, reference_replacements |-> <<>>,
                                equivalences |-> <<>>, clean_up |-> <<>>,
                                case_sensitive |-> FALSE]]
    /\ cli_pc = "idle" /\ inputs = <<>>
    /\ refs_transformed = <<>> /\ hyps_transformed = <<>>
    /\ metrics_without_adjustments = <<>> /\ metrics_with_adjustments = <<>>
    /\ final_metrics = <<>>

\* the lists of at most n texts holding at most budget characters in all
RECURSIVE ListsWithin(_, _)
ListsWithin(n, budget) ==
    IF n = 0 THEN {<<>>}
    ELSE {<<>>} \cup UNION {{<<text>> \o rest : rest \in ListsWithin(n - 1, budget - Len(text))} :
                            text \in Texts(budget)}

\* the lists of texts a caller passes
BatchLists == ListsWithin(MaxPairs, MaxBatchChars)

\* a caller is about to call calculate_metrics_batch(references, hypotheses,
\* metric_type)
Init ==
    /\ references \in BatchLists
    /\ hypotheses \in BatchLists
    /\ metric_type \in MetricTypes
    /\ pc = "call" /\ alignments = <<>>
    /\ total_correct = 0 /\ total_deletions = 0 /\ total_insertions = 0
    /\ total_substitutions = 0 /\ total_count = 0
    /\ result = <<>> /\ exception = "" /\ previous = <<>>
    /\ earlier = <<>> /\ relation = "none"
    /\ PairIdle
    /\ CliIdle

\* ------------------------------------------------------------------------
\* calculate_metrics_batch
\* ------------------------------------------------------------------------
\* lines 204-205: the length check fails
RaiseLengthMismatch ==
    /\ pc = "call"
    /\ Len(references) # Len(hypotheses)
    /\ pc' = "raised"
    /\ exception' = "Reference and hypothesis lists must have the same length"
    /\ UNCHANGED <<references, hypotheses, metric_type, alignments, total_correct,
                   total_deletions, total_insertions, total_substitutions,
                   total_count, result>>
    /\ UNCHANGED <<previous, earlier, relation, pair_vars, cli_vars>>

\* variant of Enter without the length check
Enter_unchecked ==
    /\ pc = "call"
    /\ pc' = "loop"
    /\ alignments' = <<>>
    /\ total_correct' = 0 /\ total_deletions' = 0 /\ total_insertions' = 0
    /\ total_substitutions' = 0 /\ total_count' = 0
    /\ UNCHANGED <<references, hypotheses, metric_type, result, exception>>
    /\ UNCHANGED <<previous, earlier, relation, pair_vars, cli_vars>>

\* variant of Enter that leaves the totals as it finds them
Enter_keeps_totals ==
    /\ pc = "call"
    /\ Len(references) = Len(hypotheses)
    /\ pc' = "loop"
    /\ alignments' = <<>>
    /\ UNCHANGED <<total_correct, total_deletions, total_insertions,
                   total_substitutions, total_count>>
    /\ UNCHANGED <<references, hypotheses, metric_type, result, exception>>
    /\ UNCHANGED <<previous, earlier, relation, pair_vars, cli_vars>>

\* lines 204-213: the length check passes, the locals are set
Enter ==
    /\ pc = "call"
    /\ Len(references) = Len(hypotheses)
    /\ pc' = "loop"
    /\ alignments' = <<>>
    /\ total_correct' = 0 /\ total_deletions' = 0 /\ total_insertions' = 0
    /\ total_substitutions' = 0 /\ total_count' = 0
    /\ UNCHANGED <<references, hypotheses, metric_type, result, exception>>
    /\ UNCHANGED <<previous, earlier, relation, pair_vars, cli_vars>>

\* the metrics of one pair, lines 216-221
pair_metrics(ref, hyp, mt) ==
    IF mt = "wer" THEN calculate_wer_metrics(ref, hyp)
    ELSE calculate_cer_metrics(ref, hyp)

pair_metrics_raises(ref, hyp, mt) ==
    IF mt = "wer" THEN calculate_wer_metrics_raises(ref, hyp)
    ELSE calculate_cer_metrics_raises(ref, hyp)

\* metrics[count_key], lines 218, 221, 227
count_of(metrics, mt) ==
    IF mt = "wer" THEN metrics.word_count ELSE metrics.character_count

\* variant of alignment_record with the two texts exchanged
alignment_record_swapped(ref, hyp, alignment, metrics) ==
    [reference |-> hyp, hypothesis |-> ref, alignment |-> alignment,
     metrics |-> metrics]

\* the record line 231-236 appends
alignment_record(ref, hyp, alignment, metrics) ==
    [reference |-> ref, hypothesis |-> hyp, alignment |-> alignment,
     metrics |-> metrics]

\* variant of Accumulate that assigns the deletions of the pair instead of
\* adding them
Accumulate_assign(ref, hyp, metrics) ==
    /\ total_correct' = total_correct + metrics.correct
    /\ total_deletions' = metrics.deletions
    /\ total_insertions' = total_insertions + metrics.insertions
    /\ total_substitutions' = total_substitutions + metrics.substitutions
    /\ total_count' = total_count + count_of(metrics, metric_type)
    /\ IF get_alignment_raises(ref, hyp, metric_type)
       THEN /\ pc' = "raised"
            /\ exception' = "ValueError"
            /\ UNCHANGED alignments
       ELSE /\ alignments' = Append(alignments,
                   alignment_record(ref, hyp,
                       get_alignment(ref, hyp, metric_type), metrics))
            /\ UNCHANGED <<pc, exception>>

\* variant of Accumulate that assigns the unit count of the pair instead of
\* adding it
Accumulate_count_assigned(ref, hyp, metrics) ==
    /\ total_correct' = total_correct + metrics.correct
    /\ total_deletions' = total_deletions + metrics.deletions
    /\ total_insertions' = total_insertions + metrics.insertions
    /\ total_substitutions' = total_substitutions + metrics.substitutions
    /\ total_count' = count_of(metrics, metric_type)
    /\ IF get_alignment_raises(ref, hyp, metric_type)
       THEN /\ pc' = "raised"
            /\ exception' = "ValueError"
            /\ UNCHANGED alignments
       ELSE /\ alignments' = Append(alignments,
                   alignment_record(ref, hyp,
                       get_alignment(ref, hyp, metric_type), metrics))
            /\ UNCHANGED <<pc, exception>>

\* lines 223-236: the totals grow by the metrics of the pair, then the
\* alignment is fetched and the record appended
Accumulate(ref, hyp, metrics) ==
    /\ total_correct' = total_correct + metrics.correct
    /\ total_deletions' = total_deletions + metrics.deletions
    /\ total_insertions' = total_insertions + metrics.insertions
    /\ total_substitutions' = total_substitutions + metrics.substitutions
    /\ total_count' = total_count + count_of(metrics, metric_type)
    /\ IF get_alignment_raises(ref, hyp, metric_type)
       THEN /\ pc' = "raised"
            /\ exception' = "ValueError"
            /\ UNCHANGED alignments
       ELSE /\ alignments' = Append(alignments,
                   alignment_record(ref, hyp,
                       get_alignment(ref, hyp, metric_type), metrics))
            /\ UNCHANGED <<pc, exception>>

\* lines 215-222: the metrics of the pair the loop is at
Step(ref, hyp) ==
    IF pair_metrics_raises(ref, hyp, metric_type)
    THEN /\ pc' = "raised"
         /\ exception' = "Error calculating metrics"
         /\ UNCHANGED <<alignments, total_correct, total_deletions,
                        total_insertions, total_substitutions, total_count>>
    ELSE Accumulate(ref, hyp, pair_metrics(ref, hyp, metric_type))

\* line 215: the number of pairs zip(references, hypotheses) yields
zip_len == Min2(Len(references), Len(hypotheses))

\* lines 215-236: one iteration of the loop over zip(references, hypotheses)
Iterate ==
    /\ pc = "loop"
    /\ Len(alignments) < zip_len
    /\ Step(references[Len(alignments) + 1], hypotheses[Len(alignments) + 1])
    /\ UNCHANGED <<references, hypotheses, metric_type, result>>
    /\ UNCHANGED <<previous, earlier, relation, pair_vars, cli_vars>>

\* variant of aggregated_wer that takes every corpus without reference units
\* for a total error
aggregated_wer_empty_is_error(errors, correct, count) ==
    IF count = 0 THEN One ELSE Float(errors, count)

\* variant of aggregated_accuracy with the guard of the per-pair functions
\* (0.0 when there are no reference units)
aggregated_accuracy_guarded(errors, correct, count) ==
    IF count > 0 THEN Float(correct, count) ELSE Zero

\* variant of aggregated_wer that knows no error without reference units
aggregated_wer_zero_without_units(errors, correct, count) ==
    IF count = 0 THEN Zero ELSE Float(errors, count)

\* lines 238-255: the aggregate error rate and accuracy
aggregated_wer(errors, correct, count) ==
    IF count = 0
    THEN IF errors > 0 THEN One ELSE Zero
    ELSE Float(errors, count)

aggregated_accuracy(errors, correct, count) ==
    IF count = 0
    THEN IF errors > 0 THEN Zero ELSE One
    ELSE Float(correct, count)

\* lines 257-278: the aggregate dictionary
aggregated_metrics(mt, rate, accuracy, deletions, insertions, substitutions, correct, count, sentences) ==
    IF mt = "wer"
    THEN [wer |-> rate, word_accuracy |-> accuracy, deletions |-> deletions,
          insertions |-> insertions, substitutions |-> substitutions,
          correct |-> correct, word_count |-> count,
          total_sentences |-> sentences]
    ELSE [cer |-> rate, character_accuracy |-> accuracy, deletions |-> deletions,
          insertions |-> insertions, substitutions |-> substitutions,
          correct |-> correct, character_count |-> count,
          total_sentences |-> sentences]

\* variant of total_errors that leaves the insertions out
total_errors_without_insertions == total_substitutions + total_deletions

\* line 239
total_errors == total_substitutions + total_deletions + total_insertions

\* lines 238-280: the loop is over, the aggregate is computed and returned
Return ==
    /\ pc = "loop"
    /\ Len(alignments) = zip_len
    /\ result' = << aggregated_metrics(metric_type,
                        aggregated_wer(total_errors, total_correct, total_count),
                        aggregated_accuracy(total_errors, total_correct, total_count),
                        total_deletions, total_insertions, total_substitutions,
                        total_correct, total_count, Len(references)),
                    alignments >>
    /\ pc' = "returned"
    /\ UNCHANGED <<references, hypotheses, metric_type, alignments, total_correct,
                   total_deletions, total_insertions, total_substitutions,
                   total_count, exception>>
    /\ UNCHANGED <<previous, earlier, relation, pair_vars, cli_vars>>

\* the caller keeps what the call returned and calls calculate_metrics_batch
\* again with the same arguments; the frame of the first call is gone, what
\* its locals held is whatever the new frame finds before line 208
CallAgain ==
    /\ pc = "returned"
    /\ previous = <<>>
    /\ relation = "none"
    /\ previous' = result
    /\ pc' = "call"
    /\ UNCHANGED <<references, hypotheses, metric_type, alignments, total_correct,
                   total_deletions, total_insertions, total_substitutions,
                   total_count, result, exception, earlier, relation>>
    /\ UNCHANGED <<pair_vars, cli_vars>>

\* the list with the elements of list in the order p
Permuted(list, p) == [i \in 1..Len(list) |-> list[p[i]]]

\* the caller keeps what the call returned and calls calculate_metrics_batch
\* with the same pairs in another order
CallPermuted ==
    /\ pc = "returned"
    /\ previous = <<>>
    /\ relation = "none"
    /\ \E p \in Permutations(1..Len(references)) :
          /\ references' = Permuted(references, p)
          /\ hypotheses' = Permuted(hypotheses, p)
          /\ <<references', hypotheses'>> # <<references, hypotheses>>
    /\ earlier' = result
    /\ relation' = "permuted"
    /\ pc' = "call"
    /\ UNCHANGED <<metric_type, alignments, total_correct, total_deletions,
                   total_insertions, total_substitutions, total_count, result,
                   exception, previous>>
    /\ UNCHANGED <<pair_vars, cli_vars>>

\* the texts that are empty or have whitespace only
BlankTexts == {text \in Texts(MaxBatchChars) : \A i \in 1..Len(text) : isspace(text[i])}

\* the caller keeps what the call returned for one pair or more and calls
\* calculate_metrics_batch with these pairs and one more pair, of two texts
\* that are empty or have whitespace only
CallExtended ==
    /\ pc = "returned"
    /\ previous = <<>>
    /\ relation = "none"
    /\ Len(references) >= 1
    /\ \E reference_added, hypothesis_added \in BlankTexts :
          /\ Append(references, reference_added) \in BatchLists
          /\ Append(hypotheses, hypothesis_added) \in BatchLists
          /\ references' = Append(references, reference_added)
          /\ hypotheses' = Append(hypotheses, hypothesis_added)
    /\ earlier' = result
    /\ relation' = "extended"
    /\ pc' = "call"
    /\ UNCHANGED <<metric_type, alignments, total_correct, total_deletions,
                   total_insertions, total_substitutions, total_count, result,
                   exception, previous>>
    /\ UNCHANGED <<pair_vars, cli_vars>>

Next ==
    \/ RaiseLengthMismatch
    \/ Enter
    \/ Iterate
    \/ Return
    \/ CallAgain
    \/ CallPermuted
    \/ CallExtended

Spec == Init /\ [][Next]_vars

\* ------------------------------------------------------------------------
\* Direct calls of the per-pair functions
\* ------------------------------------------------------------------------
\* a caller holds a reference and a hypothesis text
InitPair ==
    /\ reference \in Texts(MaxLen)
    /\ hypothesis \in Texts(MaxLen)
    /\ called = "none" /\ returned = <<>> /\ raised = ""
    /\ BatchIdle
    /\ CliIdle

\* calculate_wer_metrics(reference, hypothesis)
CallWerMetrics ==
    /\ pc = "idle"
    /\ called' = "calculate_wer_metrics"
    /\ IF calculate_wer_metrics_raises(reference, hypothesis)
       THEN returned' = <<>> /\ raised' = "Error calculating WER"
       ELSE returned' = calculate_wer_metrics(reference, hypothesis) /\ raised' = ""
    /\ UNCHANGED <<reference, hypothesis>>
    /\ UNCHANGED <<batch_vars, cli_vars>>

\* calculate_cer_metrics(reference, hypothesis)
CallCerMetrics ==
    /\ pc = "idle"
    /\ called' = "calculate_cer_metrics"
    /\ IF calculate_cer_metrics_raises(reference, hypothesis)
       THEN returned' = <<>> /\ raised' = "Error calculating CER"
       ELSE returned' = calculate_cer_metrics(reference, hypothesis) /\ raised' = ""
    /\ UNCHANGED <<reference, hypothesis>>
    /\ UNCHANGED <<batch_vars, cli_vars>>

\* get_alignment(reference, hypothesis, mt)
CallGetAlignment(mt) ==
    /\ pc = "idle"
    /\ called' = (IF mt = "wer" THEN "get_alignment_wer" ELSE "get_alignment_cer")
    /\ IF get_alignment_raises(reference, hypothesis, mt)
       THEN returned' = <<>> /\ raised' = "ValueError"
       ELSE returned' = get_alignment(reference, hypothesis, mt) /\ raised' = ""
    /\ UNCHANGED <<reference, hypothesis>>
    /\ UNCHANGED <<batch_vars, cli_vars>>

NextPair ==
    \/ CallWerMetrics
    \/ CallCerMetrics
    \/ \E mt \in MetricTypes : CallGetAlignment(mt)

SpecPair == InitPair /\ [][NextPair]_vars

\* ------------------------------------------------------------------------
\* The wer and cer commands (src/metrix.py)
\* ------------------------------------------------------------------------
\* IDs and sentences as the input files hold them
FileIds == {<<"1", "0">>, <<"2", " ">>}
FileTexts == {<<"A", ".", " ">>, <<"a", "-", "b">>}

TrnLines ==
    {[kind |-> "entry", id |-> id, text |-> text] : id \in FileIds, text \in FileTexts}
    \cup {[kind |-> k, id |-> <<>>, text |-> <<>>] : k \in {"blank", "malformed"}}

CsvRows ==
    {[ID |-> id, reference |-> ref, hypothesis |-> hyp] :
        id \in FileIds \cup {<<" ">>}, ref \in FileTexts, hyp \in FileTexts}

\* an option that was not given (None)
NoTrnPath == [given |-> FALSE, exists |-> FALSE, lines |-> <<>>]
NoCsvPath == [given |-> FALSE, exists |-> FALSE, fieldnames |-> {}, rows |-> <<>>]

\* the paths of TRN files: files of at most MaxLines lines, and a path
\* without a file
TrnPaths ==
    {[given |-> TRUE, exists |-> TRUE, lines |-> lines] : lines \in SeqsUpTo(TrnLines, MaxLines)}
    \cup {[given |-> TRUE, exists |-> FALSE, lines |-> <<>>]}

\* the paths of CSV files: files of at most MaxLines rows under the header
\* ID,reference,hypothesis, a file under another header, a path without a
\* file
CsvPaths ==
    {[given |-> TRUE, exists |-> TRUE, fieldnames |-> required_columns, rows |-> rows] :
        rows \in SeqsUpTo(CsvRows, MaxLines)}
    \cup {[given |-> TRUE, exists |-> TRUE, fieldnames |-> {"ID", "reference"}, rows |-> <<>>],
          [given |-> TRUE, exists |-> FALSE, fieldnames |-> {}, rows |-> <<>>]}

\* the --hypothesis, --reference and --compact-input options of one run
InputOptions ==
    {<<h, r, NoCsvPath>> : h \in TrnPaths, r \in TrnPaths}
    \cup {<<NoTrnPath, NoTrnPath, c>> : c \in CsvPaths}
    \cup {<<NoTrnPath, NoTrnPath, NoCsvPath>>,
          <<[given |-> TRUE, exists |-> TRUE, lines |-> <<>>], NoTrnPath, NoCsvPath>>,
          <<[given |-> TRUE, exists |-> TRUE, lines |-> <<>>], NoTrnPath,
            [given |-> TRUE, exists |-> TRUE, fieldnames |-> required_columns, rows |-> <<>>]>>}

\* the --case-sensitive, --keep-punctuation, --neutralize-hyphens and
\* --neutralize-apostrophes flags of one run: the defaults, and settings that
\* turn each flag on
TransformOptions ==
    {[case_sensitive |-> cs, keep_punctuation |-> kp, neutralize_hyphens |-> nh,
      neutralize_apostrophes |-> na] :
        <<cs, kp, nh, na>> \in {<<FALSE, FALSE, FALSE, FALSE>>, <<TRUE, TRUE, FALSE, FALSE>>,
                                <<FALSE, FALSE, TRUE, FALSE>>, <<FALSE, TRUE, FALSE, TRUE>>}}

\* the content of an adjustments file; keys are the keys the JSON object has
NoAdjustments ==
    [keys |-> {}, reference_replacements |-> <<>>, equivalences |-> <<>>,
     clean_up |-> <<>>, case_sensitive |-> FALSE]
AdjustmentsData ==
    {NoAdjustments,
     [keys |-> {"reference_replacements", "equivalences"},
      reference_replacements |-> <<<< <<"a">>, <<"b">> >>>>,
      equivalences |-> << << <<"b">>, <<"a">> >> >>,
      clean_up |-> <<>>, case_sensitive |-> FALSE],
     [keys |-> {"clean_up", "case_sensitive"},
      reference_replacements |-> <<>>, equivalences |-> <<>>,
      clean_up |-> << <<"a">> >>, case_sensitive |-> TRUE]}

\* the --adjustments option of one run of wer: not given, a file
\* load_adjustments rejects, a file it loads
AdjustmentsOptions ==
    {[given |-> FALSE, valid |-> FALSE, data |-> NoAdjustments],
     [given |-> TRUE, valid |-> FALSE, data |-> NoAdjustments]}
    \cup {[given |-> TRUE, valid |-> TRUE, data |-> data] : data \in AdjustmentsData}

\* a user is about to run the wer or the cer command
InitCli ==
    /\ command \in {"wer", "cer"}
    /\ \E given \in InputOptions :
          /\ hypothesis_path = given[1]
          /\ reference_path = given[2]
          /\ compact_input_path = given[3]
    /\ options \in TransformOptions
    /\ adjustments \in AdjustmentsOptions
    /\ command = "cer" => ~adjustments.given
    /\ cli_pc = "start" /\ inputs = <<>>
    /\ refs_transformed = <<>> /\ hyps_transformed = <<>>
    /\ metrics_without_adjustments = <<>> /\ metrics_with_adjustments = <<>>
    /\ final_metrics = <<>>
    /\ BatchIdle
    /\ PairIdle

\* validate_input_options(hypothesis, reference, compact_input) raises
validate_input_options_raises(hyp_path, ref_path, compact_path) ==
    IF compact_path.given THEN hyp_path.given \/ ref_path.given
    ELSE ~hyp_path.given \/ ~ref_path.given

\* [ref for _, ref, _ in inputs]
references_of(triples) == [i \in 1..Len(triples) |-> triples[i][2]]
\* [hyp for _, _, hyp in inputs]
hypotheses_of(triples) == [i \in 1..Len(triples) |-> triples[i][3]]

\* zip(refs, hyps)
zip(refs, hyps) == [i \in 1..Min2(Len(refs), Len(hyps)) |-> <<refs[i], hyps[i]>>]

\* the loop that fills transformed_pairs
transformed_pairs(refs, hyps, o) ==
    LET pairs == zip(refs, hyps)
    IN [i \in 1..Len(pairs) |-> apply_basic_transformations(pairs[i][1], pairs[i][2], o)]

\* the loop that fills refs_adjusted and hyps_adjusted
adjusted_pairs(refs, hyps, data) ==
    LET pairs == zip(refs, hyps)
    IN [i \in 1..Len(pairs) |-> apply_adjustments(pairs[i][1], pairs[i][2], data)]

\* [ref for ref, _ in pairs]
firsts(pairs) == [i \in 1..Len(pairs) |-> pairs[i][1]]

\* [hyp for _, hyp in pairs if hyp]
RECURSIVE seconds_not_empty(_)
seconds_not_empty(pairs) ==
    IF pairs = <<>> THEN <<>>
    ELSE (IF Head(pairs)[2] = <<>> THEN <<>> ELSE <<Head(pairs)[2]>>)
         \o seconds_not_empty(Tail(pairs))

\* [hyp for _, hyp in pairs]
seconds(pairs) == [i \in 1..Len(pairs) |-> pairs[i][2]]

\* the command validates its options and loads the inputs
CliLoad(sclite_format) ==
    /\ cli_pc = "start"
    /\ IF validate_input_options_raises(hypothesis_path, reference_path, compact_input_path)
       THEN cli_pc' = "failed" /\ inputs' = <<>>
       ELSE LET loaded == load_inputs(hypothesis_path, reference_path,
                                      compact_input_path, sclite_format)
            IN IF loaded.raised # ""
               THEN cli_pc' = "failed" /\ inputs' = <<>>
               ELSE cli_pc' = "loaded" /\ inputs' = loaded.results
    /\ UNCHANGED <<command, hypothesis_path, reference_path, compact_input_path,
                   options, adjustments, refs_transformed, hyps_transformed,
                   metrics_without_adjustments, metrics_with_adjustments, final_metrics>>
    /\ UNCHANGED <<batch_vars, pair_vars>>

\* the command separates references and hypotheses and applies the basic
\* transformations
CliTransform ==
    /\ cli_pc = "loaded"
    /\ refs_transformed' =
           firsts(transformed_pairs(references_of(inputs), hypotheses_of(inputs), options))
    /\ hyps_transformed' =
           seconds(transformed_pairs(references_of(inputs), hypotheses_of(inputs), options))
    /\ cli_pc' = "transformed"
    /\ UNCHANGED <<command, hypothesis_path, reference_path, compact_input_path,
                   options, adjustments, inputs,
                   metrics_without_adjustments, metrics_with_adjustments, final_metrics>>
    /\ UNCHANGED <<batch_vars, pair_vars>>

\* if adjustments: load_adjustments raises
load_adjustments_raises == adjustments.given /\ ~adjustments.valid

\* adjustments_data, None when the option is not given; it is truthy when
\* the loaded JSON object has a key
adjustments_data == adjustments.data
adjustments_data_truthy == adjustments.given /\ adjustments.data.keys # {}

\* the command loads the adjustments and calls calculate_metrics_batch on the
\* transformed texts
CliCalculate ==
    /\ cli_pc = "transformed"
    /\ IF load_adjustments_raises
       THEN /\ cli_pc' = "failed"
            /\ UNCHANGED <<references, hypotheses, metric_type, pc>>
       ELSE /\ cli_pc' = "without"
            /\ references' = refs_transformed
            /\ hypotheses' = hyps_transformed
            /\ metric_type' = command
            /\ pc' = "call"
    /\ UNCHANGED <<command, hypothesis_path, reference_path, compact_input_path,
                   options, adjustments, inputs, refs_transformed, hyps_transformed,
                   metrics_without_adjustments, metrics_with_adjustments, final_metrics>>
    /\ UNCHANGED <<alignments, total_correct, total_deletions, total_insertions,
                   total_substitutions, total_count, result, exception, previous,
                   earlier, relation, pair_vars>>

\* wer: the call on the transformed texts has returned and there are
\* adjustments; the command applies them and calls calculate_metrics_batch
\* on the adjusted texts
CliAdjust ==
    /\ cli_pc = "without" /\ pc = "returned"
    /\ command = "wer" /\ adjustments_data_truthy
    /\ metrics_without_adjustments' = result[1]
    /\ references' = firsts(adjusted_pairs(refs_transformed, hyps_transformed, adjustments_data))
    /\ hypotheses' = seconds(adjusted_pairs(refs_transformed, hyps_transformed, adjustments_data))
    /\ metric_type' = "wer"
    /\ pc' = "call"
    /\ cli_pc' = "with"
    /\ UNCHANGED <<command, hypothesis_path, reference_path, compact_input_path,
                   options, adjustments, inputs, refs_transformed, hyps_transformed,
                   metrics_with_adjustments, final_metrics>>
    /\ UNCHANGED <<alignments, total_correct, total_deletions, total_insertions,
                   total_substitutions, total_count, result, exception, previous,
                   earlier, relation, pair_vars>>

\* the last call of calculate_metrics_batch has returned; the command picks
\* the final metrics
CliFinish ==
    /\ pc = "returned"
    /\ \/ /\ cli_pc = "without"
          /\ ~(command = "wer" /\ adjustments_data_truthy)
          /\ metrics_without_adjustments' =
                 (IF command = "wer" THEN result[1] ELSE metrics_without_adjustments)
          /\ final_metrics' = result[1]
          /\ UNCHANGED metrics_with_adjustments
       \/ /\ cli_pc = "with"
          /\ metrics_with_adjustments' = result[1]
          /\ final_metrics' = result[1]
          /\ UNCHANGED metrics_without_adjustments
    /\ cli_pc' = "done"
    /\ pc' = "idle"
    /\ UNCHANGED <<command, hypothesis_path, reference_path, compact_input_path,
                   options, adjustments, inputs, refs_transformed, hyps_transformed>>
    /\ UNCHANGED <<references, hypotheses, metric_type, alignments, total_correct,
                   total_deletions, total_insertions, total_substitutions,
                   total_count, result, exception, previous, earlier, relation,
                   pair_vars>>

\* a run of a command; inside it calculate_metrics_batch runs as it does for
\* any caller (Enter, Iterate, Return), on lists of equal length
NextCli ==
    \/ \E sclite_format \in BOOLEAN : CliLoad(sclite_format)
    \/ CliTransform
    \/ CliCalculate
    \/ Enter
    \/ Iterate
    \/ Return
    \/ CliAdjust
    \/ CliFinish

SpecCli == InitCli /\ [][NextCli]_vars

\* ------------------------------------------------------------------------
\* Properties: vocabulary
\* ------------------------------------------------------------------------
\* the text is empty or has whitespace only
Blank(text) == \A i \in 1..Len(text) : text[i] \in Whitespace

\* the fields of a metrics dictionary under their metric-independent names
Rate(m, mt) == IF mt = "wer" THEN m.wer ELSE m.cer
Accuracy(m, mt) == IF mt = "wer" THEN m.word_accuracy ELSE m.character_accuracy
Errors(m) == m.substitutions + m.deletions + m.insertions

\* the fraction f equals n / d (d > 0)
IsFraction(f, n, d) == f[2] > 0 /\ f[1] * d = n * f[2]

RECURSIVE SumSeq(_)
SumSeq(q) == IF q = <<>> THEN 0 ELSE Head(q) + SumSeq(Tail(q))

\* the per-pair metrics of the input pairs, computed pair by pair
InputMetrics ==
    [i \in 1..Len(references) |->
        pair_metrics(references[i], hypotheses[i], metric_type)]

SumHits(ms) == SumSeq([i \in 1..Len(ms) |-> ms[i].correct])
SumSubstitutions(ms) == SumSeq([i \in 1..Len(ms) |-> ms[i].substitutions])
SumDeletions(ms) == SumSeq([i \in 1..Len(ms) |-> ms[i].deletions])
SumInsertions(ms) == SumSeq([i \in 1..Len(ms) |-> ms[i].insertions])
SumErrors(ms) == SumSeq([i \in 1..Len(ms) |-> Errors(ms[i])])
SumCount(ms, mt) == SumSeq([i \in 1..Len(ms) |-> count_of(ms[i], mt)])

\* sum of the per-pair error rates as a fraction <<n, d>>
RECURSIVE SumRates(_, _)
SumRates(ms, mt) ==
    IF ms = <<>> THEN <<0, 1>>
    ELSE LET r == Rate(Head(ms), mt)
             t == SumRates(Tail(ms), mt)
         IN <<r[1] * t[2] + t[1] * r[2], r[2] * t[2]>>

\* calculate_metrics_batch has returned <<aggregate, records>>
Returned == pc = "returned"
Aggregate == result[1]
Records == result[2]

\* the aggregate rate is the ratio of the sums of ms
RatioOfSums(agg, ms, mt) ==
    /\ IsFraction(Rate(agg, mt), SumErrors(ms), SumCount(ms, mt))
    /\ IsFraction(Accuracy(agg, mt), SumHits(ms), SumCount(ms, mt))

\* the aggregate rate is the mean of the per-pair rates of ms
MeanOfRatios(agg, ms, mt) ==
    Rate(agg, mt)[1] * SumRates(ms, mt)[2] * Len(ms)
        = SumRates(ms, mt)[1] * Rate(agg, mt)[2]

\* ------------------------------------------------------------------------
\* Properties of calculate_metrics_batch (checked under Spec)
\* ------------------------------------------------------------------------
\* C1: when the summed reference-unit count of the pairs is positive, the
\* aggregate error rate is (sum of substitutions + deletions + insertions) /
\* (sum of unit counts) and the aggregate accuracy is (sum of hits) / (sum of
\* unit counts): the ratio of the sums.
C1_RatioOfSums ==
    (Returned /\ SumCount(InputMetrics, metric_type) > 0)
        => RatioOfSums(Aggregate, InputMetrics, metric_type)

\* C1 witness: a batch of several pairs with a positive unit count has
\* returned, and the ratio of sums differs from the mean of the pair rates
C1_Witness ==
    /\ Returned
    /\ Len(references) >= 2
    /\ SumCount(InputMetrics, metric_type) > 0
    /\ RatioOfSums(Aggregate, InputMetrics, metric_type)
    /\ ~MeanOfRatios(Aggregate, InputMetrics, metric_type)

\* C2: each count of the aggregate is the sum of that count over the
\* per-pair metrics of all input pairs, and total_sentences is the number of
\* input pairs.
C2_CountsAreSums ==
    Returned =>
        /\ Aggregate.correct = SumHits(InputMetrics)
        /\ Aggregate.substitutions = SumSubstitutions(InputMetrics)
        /\ Aggregate.deletions = SumDeletions(InputMetrics)
        /\ Aggregate.insertions = SumInsertions(InputMetrics)
        /\ count_of(Aggregate, metric_type) = SumCount(InputMetrics, metric_type)
        /\ Aggregate.total_sentences = Len(references)

\* C2 witness: three pairs have been folded, each count but one fed by a
\* different pair
C2_Witness ==
    /\ Returned
    /\ Len(references) = 3
    /\ Aggregate.correct >= 1
    /\ Aggregate.insertions >= 1
    /\ Aggregate.deletions >= 1
    /\ \A i \in 1..3 : Errors(InputMetrics[i]) + InputMetrics[i].correct = 1

\* C3: a non-empty batch whose references and hypotheses are all empty or
\* whitespace-only gets error rate 0.0, accuracy 1.0, unit count 0 and all
\* edit counts 0.
C3_AllBlank ==
    ( /\ Returned
      /\ Len(references) >= 1
      /\ \A i \in 1..Len(references) : Blank(references[i]) /\ Blank(hypotheses[i]) )
        => /\ Rate(Aggregate, metric_type) = <<0, 1>>
           /\ Accuracy(Aggregate, metric_type) = <<1, 1>>
           /\ count_of(Aggregate, metric_type) = 0
           /\ Aggregate.correct = 0
           /\ Aggregate.substitutions = 0
           /\ Aggregate.deletions = 0
           /\ Aggregate.insertions = 0

\* C3 witness: a batch of two blank pairs, one text whitespace-only, returned
C3_Witness ==
    /\ Returned
    /\ Len(references) = 2
    /\ \A i \in 1..2 : Blank(references[i]) /\ Blank(hypotheses[i])
    /\ \E i \in 1..2 : references[i] # <<>>
    /\ \E i \in 1..2 : hypotheses[i] # <<>>

\* the units the aligner works on: what the transform of the metric makes
\* of the text
units(text, mt) == IF mt = "wer" THEN wer_default(text) ELSE cer_default(text)

HypothesisUnits ==
    SumSeq([i \in 1..Len(hypotheses) |-> Len(units(hypotheses[i], metric_type))])

IsSpecialCase(m, hyp, mt) ==
    /\ count_of(m, mt) = 0
    /\ m.correct = 0 /\ m.substitutions = 0 /\ m.deletions = 0
    /\ IF Blank(hyp)
       THEN m.insertions = 0 /\ Rate(m, mt) = <<0, 1>> /\ Accuracy(m, mt) = <<1, 1>>
       ELSE m.insertions > 0 /\ Rate(m, mt) = <<1, 1>> /\ Accuracy(m, mt) = <<0, 1>>

\* C5: given lists of equal length calculate_metrics_batch never raises, and
\* a pair with an empty or whitespace-only reference gets its special-case
\* metrics and an alignment, like every other pair.
C5_NeverFails ==
    Len(references) = Len(hypotheses) =>
        /\ pc # "raised"
        /\ exception = ""
        /\ pc \in {"loop", "returned"} =>
              \A i \in 1..Len(alignments) :
                  Blank(references[i]) =>
                      IsSpecialCase(alignments[i].metrics, hypotheses[i], metric_type)
        /\ Returned => Len(Records) = Len(references)

\* C5 witness: a batch with a blank reference against a hypothesis with text
\* and a blank reference against a blank hypothesis has returned
C5_Witness ==
    /\ Returned
    /\ Len(Records) = Len(references)
    /\ \E i \in 1..Len(references) : Blank(references[i]) /\ ~Blank(hypotheses[i])
    /\ \E i \in 1..Len(references) : Blank(references[i]) /\ Blank(hypotheses[i])

\* C6: given lists of different lengths calculate_metrics_batch raises the
\* length error before it processes a pair, and returns nothing.
C6_LengthMismatch ==
    Len(references) # Len(hypotheses) =>
        /\ pc \in {"call", "raised"}
        /\ pc = "raised" =>
              exception = "Reference and hypothesis lists must have the same length"
        /\ alignments = <<>>
        /\ result = <<>>
        /\ total_correct = 0 /\ total_deletions = 0 /\ total_insertions = 0
        /\ total_substitutions = 0 /\ total_count = 0

\* C6 witness: the call has raised on two non-empty lists of different lengths
C6_Witness ==
    /\ pc = "raised"
    /\ Len(references) # Len(hypotheses)
    /\ zip_len >= 1

\* C7: for zero pairs calculate_metrics_batch returns all counts 0, error
\* rate 0.0, accuracy 1.0, total_sentences 0 and no alignment record.
C7_EmptyInput ==
    (Returned /\ references = <<>> /\ hypotheses = <<>>) =>
        /\ Aggregate.correct = 0
        /\ Aggregate.substitutions = 0
        /\ Aggregate.deletions = 0
        /\ Aggregate.insertions = 0
        /\ count_of(Aggregate, metric_type) = 0
        /\ Rate(Aggregate, metric_type) = <<0, 1>>
        /\ Accuracy(Aggregate, metric_type) = <<1, 1>>
        /\ Aggregate.total_sentences = 0
        /\ Records = <<>>

\* C7 witness: the call on two empty lists has returned
C7_Witness == Returned /\ references = <<>> /\ hypotheses = <<>>

\* C8: there is one alignment record per input pair, in input order: record
\* i holds the i-th reference, the i-th hypothesis and the per-pair metrics
\* of that pair.
C8_RecordsInOrder ==
    /\ pc \in {"loop", "returned"} =>
          \A i \in 1..Len(alignments) :
              /\ alignments[i].reference = references[i]
              /\ alignments[i].hypothesis = hypotheses[i]
              /\ alignments[i].metrics = InputMetrics[i]
    /\ Returned => Records = alignments /\ Len(Records) = Len(references)

\* C8 witness: three records of three different pairs have been returned
C8_Witness ==
    /\ Returned
    /\ Len(Records) = 3
    /\ references[1] # references[2]
    /\ hypotheses[2] # hypotheses[3]
    /\ references[1] # hypotheses[1]
    /\ Records[1].metrics # Records[3].metrics

\* ------------------------------------------------------------------------
\* Properties of the per-pair functions (checked under SpecPair)
\* ------------------------------------------------------------------------
CalledMetrics == called \in {"calculate_wer_metrics", "calculate_cer_metrics"}
CalledType == IF called = "calculate_wer_metrics" THEN "wer" ELSE "cer"

\* C9: the metrics of a text with itself, the text not empty or
\* whitespace-only, have error rate 0.0, accuracy 1.0, as many hits as
\* reference units and no substitution, deletion or insertion.
C9_IdenticalIsPerfect ==
    (CalledMetrics /\ raised = "" /\ reference = hypothesis /\ ~Blank(reference)) =>
        /\ Rate(returned, CalledType) = <<0, 1>>
        /\ Accuracy(returned, CalledType) = <<1, 1>>
        /\ returned.correct = count_of(returned, CalledType)
        /\ Errors(returned) = 0

\* the number of words of a text: the places where a run of characters
\* other than whitespace begins
WordCount(text) ==
    Cardinality({i \in 1..Len(text) :
        /\ text[i] \notin Whitespace
        /\ (i = 1 \/ text[i - 1] \in Whitespace)})

\* C10: calculate_wer_metrics("", r) has insertions = wordCount(r), every
\* other count 0, unit count 0, and error rate 1.0 with accuracy 0.0 when r
\* has a word, error rate 0.0 with accuracy 1.0 when it has none.
C10_EmptyReference ==
    (called = "calculate_wer_metrics" /\ reference = <<>>) =>
        /\ raised = ""
        /\ returned.insertions = WordCount(hypothesis)
        /\ returned.correct = 0
        /\ returned.substitutions = 0
        /\ returned.deletions = 0
        /\ returned.word_count = 0
        /\ returned.wer = (IF WordCount(hypothesis) > 0 THEN <<1, 1>> ELSE <<0, 1>>)
        /\ returned.word_accuracy =
              (IF WordCount(hypothesis) > 0 THEN <<0, 1>> ELSE <<1, 1>>)

\* C10 witness: the call with an empty reference and a hypothesis of two
\* words, a tab between them, has returned two insertions
C10_Witness ==
    /\ called = "calculate_wer_metrics"
    /\ reference = <<>>
    /\ hypothesis = <<"a", "\t", "b">>
    /\ returned.insertions = 2

\* C11: the metrics of a reference that is not empty with the empty
\* hypothesis have as many deletions as the reference has units, that number
\* for unit count, no insertion, substitution or hit, error rate 1.0 and
\* accuracy 0.0.
C11_EmptyHypothesis ==
    (CalledMetrics /\ raised = "" /\ ~Blank(reference) /\ hypothesis = <<>>) =>
        /\ returned.deletions = Len(units(reference, CalledType))
        /\ returned.deletions = count_of(returned, CalledType)
        /\ returned.insertions = 0
        /\ returned.substitutions = 0
        /\ returned.correct = 0
        /\ Rate(returned, CalledType) = <<1, 1>>
        /\ Accuracy(returned, CalledType) = <<0, 1>>

\* C12: when reference and hypothesis are both empty or whitespace-only,
\* calculate_wer_metrics and calculate_cer_metrics return error rate 0.0,
\* accuracy 1.0 and 0 for hits, substitutions, deletions, insertions and the
\* unit count.
C12_BothBlank ==
    (CalledMetrics /\ Blank(reference) /\ Blank(hypothesis)) =>
        /\ raised = ""
        /\ Rate(returned, CalledType) = <<0, 1>>
        /\ Accuracy(returned, CalledType) = <<1, 1>>
        /\ returned.correct = 0
        /\ returned.substitutions = 0
        /\ returned.deletions = 0
        /\ returned.insertions = 0
        /\ count_of(returned, CalledType) = 0

\* C12 witness: calculate_cer_metrics has returned for a reference of two
\* whitespace characters and a hypothesis of one
C12_Witness ==
    /\ called = "calculate_cer_metrics"
    /\ reference = <<" ", "\t">>
    /\ hypothesis = <<"\t">>
    /\ returned.character_accuracy = <<1, 1>>

\* C13: for a reference that is empty or whitespace-only and a hypothesis
\* that is not, calculate_cer_metrics returns error rate 1.0, accuracy 0.0,
\* unit count 0, no hit, substitution or deletion, and as many insertions as
\* the hypothesis has character units for the aligner.
C13_CharInsertions ==
    (called = "calculate_cer_metrics" /\ Blank(reference) /\ ~Blank(hypothesis)) =>
        /\ raised = ""
        /\ returned.cer = <<1, 1>>
        /\ returned.character_accuracy = <<0, 1>>
        /\ returned.character_count = 0
        /\ returned.correct = 0
        /\ returned.substitutions = 0
        /\ returned.deletions = 0
        /\ returned.insertions = Len(units(hypothesis, "cer"))

\* C14: the metrics of a whitespace-only reference w with a hypothesis h are
\* the metrics of the empty reference with h, in word and in character mode.
C14_WhitespaceReferenceAsEmpty ==
    (CalledMetrics /\ Blank(reference)) =>
        /\ raised = ""
        /\ ~pair_metrics_raises(<<>>, hypothesis, CalledType)
        /\ returned = pair_metrics(<<>>, hypothesis, CalledType)

\* C14 witness: calculate_wer_metrics has returned two insertions for a
\* whitespace-only reference
C14_Witness ==
    /\ called = "calculate_wer_metrics"
    /\ reference # <<>>
    /\ Blank(reference)
    /\ returned.insertions = 2

\* the counts of the metrics m are those of the aligner's output
CountsOf(m, output) ==
    /\ m.correct = output.hits
    /\ m.substitutions = output.substitutions
    /\ m.deletions = output.deletions
    /\ m.insertions = output.insertions

\* C15: for a reference that is not empty or whitespace-only the unit count
\* is the number of units of the tokenized reference, the error rate is
\* (substitutions + deletions + insertions) / unit count and the accuracy is
\* hits / unit count, the counts being those of the alignment of the
\* tokenized reference and hypothesis.
C15_RatesOverReferenceUnits ==
    (CalledMetrics /\ raised = "" /\ ~Blank(reference)) =>
        /\ count_of(returned, CalledType) = Len(units(reference, CalledType))
        /\ CountsOf(returned, process_units(units(reference, CalledType),
                                            units(hypothesis, CalledType)))
        /\ IsFraction(Rate(returned, CalledType), Errors(returned),
                      count_of(returned, CalledType))
        /\ IsFraction(Accuracy(returned, CalledType), returned.correct,
                      count_of(returned, CalledType))

CalledAlignment == called \in {"get_alignment_wer", "get_alignment_cer"}
AlignmentType == IF called = "get_alignment_wer" THEN "wer" ELSE "cer"

\* every chunk lies within the two unit sequences
ChunksInRange(chunks, ref, hyp) ==
    \A k \in 1..Len(chunks) :
        /\ 0 <= chunks[k].ref_start_idx
        /\ chunks[k].ref_start_idx <= chunks[k].ref_end_idx
        /\ chunks[k].ref_end_idx <= Len(ref)
        /\ 0 <= chunks[k].hyp_start_idx
        /\ chunks[k].hyp_start_idx <= chunks[k].hyp_end_idx
        /\ chunks[k].hyp_end_idx <= Len(hyp)

\* the reference units the chunks name, read in order, insertions ignored
RECURSIVE RefProjection(_, _)
RefProjection(chunks, ref) ==
    IF chunks = <<>> THEN <<>>
    ELSE (IF Head(chunks).type = "insert" THEN <<>>
          ELSE SubSeq(ref, Head(chunks).ref_start_idx + 1, Head(chunks).ref_end_idx))
         \o RefProjection(Tail(chunks), ref)

\* the hypothesis units the chunks name, read in order, deletions ignored
RECURSIVE HypProjection(_, _)
HypProjection(chunks, hyp) ==
    IF chunks = <<>> THEN <<>>
    ELSE (IF Head(chunks).type = "delete" THEN <<>>
          ELSE SubSeq(hyp, Head(chunks).hyp_start_idx + 1, Head(chunks).hyp_end_idx))
         \o HypProjection(Tail(chunks), hyp)

Reconstructs(chunks, ref, hyp) ==
    /\ ChunksInRange(chunks, ref, hyp)
    /\ RefProjection(chunks, ref) = ref
    /\ HypProjection(chunks, hyp) = hyp

ChunkTypes(chunks) == {chunks[k].type : k \in 1..Len(chunks)}

\* C16: the operations of the alignment get_alignment returns, read in order,
\* give the reference unit sequence when the insertions are ignored and the
\* hypothesis unit sequence when the deletions are ignored.
C16_AlignmentReconstructs ==
    (CalledAlignment /\ raised = "") =>
        /\ Len(returned) = 1
        /\ Reconstructs(returned[1], units(reference, AlignmentType),
                        units(hypothesis, AlignmentType))

\* C16 witness: get_alignment has returned an alignment with a deletion, an
\* insertion and a kept unit
C16_Witness ==
    /\ CalledAlignment
    /\ raised = ""
    /\ {"delete", "insert", "equal"} \subseteq ChunkTypes(returned[1])

\* the two unit sequences have the same length and differ in one position
DifferInOnePosition(ref, hyp) ==
    /\ Len(ref) = Len(hyp)
    /\ Cardinality({k \in 1..Len(ref) : ref[k] # hyp[k]}) = 1

\* C17: when reference and hypothesis have the same number of units and
\* differ in exactly one position, the metrics have 1 substitution, no
\* deletion, no insertion, unit count - 1 hits and error rate 1 / unit count.
C17_SingleSubstitution ==
    ( /\ CalledMetrics
      /\ raised = ""
      /\ DifferInOnePosition(units(reference, CalledType), units(hypothesis, CalledType)) )
        => /\ returned.substitutions = 1
           /\ returned.deletions = 0
           /\ returned.insertions = 0
           /\ returned.correct = count_of(returned, CalledType) - 1
           /\ IsFraction(Rate(returned, CalledType), 1, count_of(returned, CalledType))

\* the Levenshtein distance by its recurrence: cost 1 for a substitution, an
\* insertion and a deletion, cost 0 for a match
RECURSIVE Distance(_, _)
Distance(s1, s2) ==
    IF s1 = <<>> THEN Len(s2)
    ELSE IF s2 = <<>> THEN Len(s1)
    ELSE Min2(Distance(Tail(s1), Tail(s2)) + (IF Head(s1) = Head(s2) THEN 0 ELSE 1),
              Min2(Distance(Tail(s1), s2) + 1, Distance(s1, Tail(s2)) + 1))

\* the edits of a list of chunks
ChunkErrors(chunks) ==
    chunk_total(chunks, "substitute") + chunk_total(chunks, "delete")
        + chunk_total(chunks, "insert")

\* C19: the number of errors the aligner reports, substitutions + deletions
\* + insertions, is the Levenshtein distance between the reference and the
\* hypothesis unit sequence: in the alignment get_alignment returns and in
\* the metrics of a pair that went through the aligner.
C19_ErrorsAreLevenshteinDistance ==
    /\ (CalledAlignment /\ raised = "") =>
           ChunkErrors(returned[1]) = Distance(units(reference, AlignmentType),
                                               units(hypothesis, AlignmentType))
    /\ (CalledMetrics /\ raised = "" /\ ~Blank(reference)) =>
           Errors(returned) = Distance(units(reference, CalledType),
                                       units(hypothesis, CalledType))

\* C19 witness: calculate_cer_metrics has returned for three reference and
\* two hypothesis characters with two errors and a hit
C19_Witness ==
    /\ called = "calculate_cer_metrics"
    /\ raised = ""
    /\ Len(units(reference, "cer")) = 3
    /\ Len(units(hypothesis, "cer")) = 2
    /\ Errors(returned) = 2
    /\ returned.correct = 1
    /\ returned.substitutions = 1

\* all alignments of two unit sequences, one tag per aligned position
RECURSIVE Alignments(_, _)
Alignments(s1, s2) ==
    IF s1 = <<>> /\ s2 = <<>> THEN {<<>>}
    ELSE (IF s1 = <<>> THEN {}
          ELSE {<<"delete">> \o a : a \in Alignments(Tail(s1), s2)})
         \cup (IF s2 = <<>> THEN {}
               ELSE {<<"insert">> \o a : a \in Alignments(s1, Tail(s2))})
         \cup (IF s1 = <<>> \/ s2 = <<>> THEN {}
               ELSE {<<IF Head(s1) = Head(s2) THEN "equal" ELSE "replace">> \o a :
                        a \in Alignments(Tail(s1), Tail(s2))})

TagCount(a, tag) == Cardinality({k \in 1..Len(a) : a[k] = tag})
Cost(a) == Len(a) - TagCount(a, "equal")

\* the alignments of A no other alignment of A is cheaper than; costs is the
\* set of the costs of the alignments of A
CheapestOf(A, costs) == {a \in A : \A c \in costs : Cost(a) <= c}
MinimumCostAlignments(s1, s2) ==
    CheapestOf(Alignments(s1, s2), {Cost(a) : a \in Alignments(s1, s2)})

\* the metrics m have the counts of the alignment a
HasCountsOf(m, a) ==
    /\ m.correct = TagCount(a, "equal")
    /\ m.substitutions = TagCount(a, "replace")
    /\ m.deletions = TagCount(a, "delete")
    /\ m.insertions = TagCount(a, "insert")

\* the metrics m have the counts of an alignment of A and share the number
\* of edits and of reference and hypothesis units with all of them
SharesEdits(m, A) ==
    /\ \E a \in A : HasCountsOf(m, a)
    /\ \A a \in A :
          /\ Errors(m) = Cost(a)
          /\ m.correct + m.substitutions + m.deletions = Len(a) - TagCount(a, "insert")
          /\ m.correct + m.substitutions + m.insertions = Len(a) - TagCount(a, "delete")

\* the metrics m have the counts of an alignment of A, and another alignment
\* of A has another number of hits
DiffersInHits(m, A) ==
    /\ \E a \in A : HasCountsOf(m, a)
    /\ \E a \in A : TagCount(a, "equal") # m.correct

\* the pair went through the aligner
Aligned == CalledMetrics /\ raised = "" /\ ~Blank(reference)
AlignedMinimum ==
    MinimumCostAlignments(units(reference, CalledType), units(hypothesis, CalledType))

\* C20, as stated: the hits, substitutions, deletions and insertions of a
\* pair are the same for every minimum-cost alignment of the pair.
C20_CountsOfEveryMinimumAlignment ==
    Aligned => \A a \in AlignedMinimum : HasCountsOf(returned, a)

\* C20, amended: the counts of a pair are those of one minimum-cost
\* alignment, and what every minimum-cost alignment shares with it is the
\* number of edits, substitutions + deletions + insertions, the sum hits +
\* substitutions + deletions and the sum hits + substitutions + insertions.
C20_EditsOfEveryMinimumAlignment == Aligned => SharesEdits(returned, AlignedMinimum)

\* C20 witness: a pair has returned whose minimum-cost alignments differ in
\* their number of hits
C20_Witness == Aligned /\ DiffersInHits(returned, AlignedMinimum)

\* ------------------------------------------------------------------------
\* Properties of repeated calls of calculate_metrics_batch (checked under Spec)
\* ------------------------------------------------------------------------
\* C18: a second call of calculate_metrics_batch with the same arguments
\* returns the aggregate metrics and alignment records of the first: nothing
\* the first call wrote is read by the second.
C18_SameResultAgain ==
    /\ (Returned /\ previous # <<>>) => result = previous
    /\ previous # <<>> => pc # "raised"

\* C18 witness: the second call of a batch of two pairs with hits and errors
\* has returned
C18_Witness ==
    /\ Returned
    /\ previous # <<>>
    /\ Len(references) = 2
    /\ Aggregate.correct >= 1
    /\ Errors(Aggregate) >= 1
    /\ Records[1].metrics # Records[2].metrics

\* ------------------------------------------------------------------------
\* Properties of the counts (checked under SpecPair and Spec)
\* ------------------------------------------------------------------------
\* C24: for a reference that is not empty or whitespace-only, hits +
\* substitutions + deletions is the reported unit count and hits +
\* substitutions + insertions is the number of hypothesis units.
C24_CountsCoverBothSides ==
    Aligned =>
        /\ returned.correct + returned.substitutions + returned.deletions
               = count_of(returned, CalledType)
        /\ returned.correct + returned.substitutions + returned.insertions
               = Len(units(hypothesis, CalledType))

\* the metrics m have the tallies of the chunks, by type
HasTalliesOf(m, chunks) ==
    /\ m.correct = chunk_total(chunks, "equal")
    /\ m.substitutions = chunk_total(chunks, "substitute")
    /\ m.deletions = chunk_total(chunks, "delete")
    /\ m.insertions = chunk_total(chunks, "insert")

\* C25: in every alignment record calculate_metrics_batch returns, the
\* operations of the alignment, tallied by type, are the hits, substitutions,
\* deletions and insertions of the metrics of the record, also for a pair
\* with an empty or whitespace-only reference.
C25_AlignmentTalliesAreMetrics ==
    Returned =>
        \A i \in 1..Len(Records) :
            /\ Len(Records[i].alignment) = 1
            /\ HasTalliesOf(Records[i].metrics, Records[i].alignment[1])

\* C26: the aggregate of a batch of one pair has the error rate, accuracy,
\* hits, substitutions, deletions, insertions and unit count of the per-pair
\* metrics of that pair.
C26_SinglePairAggregate ==
    (Returned /\ Len(references) = 1) =>
        /\ Rate(Aggregate, metric_type) = Rate(InputMetrics[1], metric_type)
        /\ Accuracy(Aggregate, metric_type) = Accuracy(InputMetrics[1], metric_type)
        /\ Aggregate.correct = InputMetrics[1].correct
        /\ Aggregate.substitutions = InputMetrics[1].substitutions
        /\ Aggregate.deletions = InputMetrics[1].deletions
        /\ Aggregate.insertions = InputMetrics[1].insertions
        /\ count_of(Aggregate, metric_type) = count_of(InputMetrics[1], metric_type)

\* C29: an error rate is 0.0 exactly when substitutions + deletions +
\* insertions is 0, for the metrics of every pair and for the aggregate,
\* whether or not the unit count is 0.
C29_ZeroRateIffNoErrors ==
    Returned =>
        /\ Rate(Aggregate, metric_type) = <<0, 1>> <=> Errors(Aggregate) = 0
        /\ \A i \in 1..Len(Records) :
              Rate(Records[i].metrics, metric_type) = <<0, 1>>
                  <=> Errors(Records[i].metrics) = 0

\* C29 witness: a batch without reference units has returned with errors and
\* a rate other than 0.0, one of its pairs without errors and with rate 0.0
C29_Witness ==
    /\ Returned
    /\ count_of(Aggregate, metric_type) = 0
    /\ Errors(Aggregate) > 0
    /\ Rate(Aggregate, metric_type) # <<0, 1>>
    /\ \E i \in 1..Len(Records) :
          /\ Errors(Records[i].metrics) = 0
          /\ Rate(Records[i].metrics, metric_type) = <<0, 1>>

\* the counts of m are natural numbers, its error rate is at least 0 and its
\* accuracy between 0 and 1
InRange(m, mt) ==
    /\ {m.correct, m.substitutions, m.deletions, m.insertions, count_of(m, mt)} \subseteq Nat
    /\ Rate(m, mt)[2] > 0 /\ Rate(m, mt)[1] >= 0
    /\ Accuracy(m, mt)[2] > 0 /\ Accuracy(m, mt)[1] >= 0
    /\ Accuracy(m, mt)[1] <= Accuracy(m, mt)[2]

AtMostOne(f) == f[1] <= f[2]

\* the units of a text as the calculators count them: the words between
\* runs of whitespace, or the characters
counted_units(text, mt) == IF mt = "wer" THEN split(text) ELSE text

\* C30: the counts of every per-pair and aggregate result are natural
\* numbers, the error rate is at least 0 and the accuracy between 0 and 1; and
\* when the hypothesis of a pair has no more units than its reference, which
\* is not blank, the error rate of the pair is at most 1.
C30_ResultsInRange ==
    Returned =>
        /\ InRange(Aggregate, metric_type)
        /\ \A i \in 1..Len(Records) :
              /\ InRange(Records[i].metrics, metric_type)
              /\ ( /\ ~Blank(references[i])
                   /\ Len(counted_units(hypotheses[i], metric_type))
                          <= Len(counted_units(references[i], metric_type)) )
                     => AtMostOne(Rate(Records[i].metrics, metric_type))

\* ------------------------------------------------------------------------
\* Properties of calls with related input (checked under Spec)
\* ------------------------------------------------------------------------
EarlierAggregate == earlier[1]
EarlierRecords == earlier[2]

\* C27: the aggregate of calculate_metrics_batch is the same for the pairs in
\* any order; the alignment records are the same records, in the order of
\* the input.
C27_AggregateOfAnyOrder ==
    relation = "permuted" =>
        /\ pc # "raised"
        /\ Returned =>
              /\ Aggregate = EarlierAggregate
              /\ {Records[i] : i \in 1..Len(Records)}
                     = {EarlierRecords[i] : i \in 1..Len(EarlierRecords)}

\* C27 witness: a batch of three pairs with different unit counts has
\* returned in an order other than the one of the earlier call
C27_Witness ==
    /\ Returned
    /\ relation = "permuted"
    /\ Len(Records) = 3
    /\ Records[3] # EarlierRecords[3]
    /\ count_of(Records[3].metrics, metric_type)
           # count_of(EarlierRecords[3].metrics, metric_type)
    /\ Aggregate.correct >= 1
    /\ Errors(Aggregate) >= 1

\* C28: with one more pair, of a reference and a hypothesis that are empty or
\* whitespace-only, a batch of one pair or more has the aggregate it had
\* without that pair, except for total_sentences, which is greater by one.
C28_BlankPairAdded ==
    relation = "extended" =>
        /\ pc # "raised"
        /\ Returned =>
              Aggregate = [EarlierAggregate EXCEPT !.total_sentences = @ + 1]

\* C28 witness: a batch with a reference unit and an error has returned
\* again with one more pair, of two whitespace-only texts
C28_Witness ==
    /\ Returned
    /\ relation = "extended"
    /\ references[Len(references)] # <<>>
    /\ hypotheses[Len(hypotheses)] # <<>>
    /\ count_of(Aggregate, metric_type) >= 1
    /\ Errors(Aggregate) >= 1
    /\ Aggregate.total_sentences = EarlierAggregate.total_sentences + 1

\* ------------------------------------------------------------------------
\* Properties of the command line
\* ------------------------------------------------------------------------
\* load_inputs has returned its list to the command
Loaded == cli_pc \in {"loaded", "transformed", "without", "with", "done"}
LoadedFromTrn == Loaded /\ ~compact_input_path.given
LoadedFromCsv == Loaded /\ compact_input_path.given

\* the entries of a TRN file
EntriesOf(path) == {i \in DOMAIN path.lines : path.lines[i].kind = "entry"}
\* the IDs a TRN file has an entry for
IdsOf(path) == {strip(path.lines[i].id) : i \in EntriesOf(path)}
\* the sentences a TRN file has for an ID
SentencesOf(path, id) ==
    {strip(path.lines[i].text) : i \in {j \in EntriesOf(path) : strip(path.lines[j].id) = id}}
\* the text a triple may hold for the side of a TRN file: one of the file's
\* sentences for the ID, the empty string if the file lacks the ID
SideOf(path, id) == IF id \in IdsOf(path) THEN SentencesOf(path, id) ELSE {<<>>}

\* C22: the IDs of the triples load_inputs returns are pairwise distinct.
C22_LoadedIdsDistinct ==
    Loaded => \A i, j \in DOMAIN inputs : i # j => inputs[i][1] # inputs[j][1]

\* C23: from two TRN files load_inputs returns one triple for each ID of
\* either file and no other, in ascending order of the IDs as strings; the
\* side of a file that lacks the ID is the empty string.
C23_OneTriplePerIdOfEitherFile ==
    LoadedFromTrn =>
        /\ {inputs[i][1] : i \in DOMAIN inputs}
               = IdsOf(hypothesis_path) \cup IdsOf(reference_path)
        /\ \A i, j \in DOMAIN inputs : i < j => str_lt(inputs[i][1], inputs[j][1])
        /\ \A i \in DOMAIN inputs :
              /\ inputs[i][2] \in SideOf(reference_path, inputs[i][1])
              /\ inputs[i][3] \in SideOf(hypothesis_path, inputs[i][1])

\* C23 witness: two TRN files were loaded, the hypothesis file alone has the
\* first ID and the reference file alone has the second
C23_Witness ==
    /\ LoadedFromTrn
    /\ Len(inputs) = 2
    /\ inputs[1][1] \notin IdsOf(reference_path)
    /\ inputs[2][1] \notin IdsOf(hypothesis_path)
    /\ inputs[1][3] # <<>>
    /\ inputs[2][2] # <<>>

\* calculate_metrics_batch runs, or has returned, on behalf of the command
HandedOver == cli_pc \in {"without", "with"}

\* the texts the command is to hand over for the i-th loaded triple
ExpectedPair(i) ==
    IF cli_pc = "with"
    THEN apply_adjustments(transform_text(inputs[i][2], options),
                           transform_text(inputs[i][3], options), adjustments.data)
    ELSE <<transform_text(inputs[i][2], options), transform_text(inputs[i][3], options)>>

\* C21: the lists a command hands to calculate_metrics_batch have one text
\* for each loaded triple, in the order of the triples: the i-th reference
\* and hypothesis are the transformed (in the adjusted run, transformed and
\* adjusted) texts of the i-th triple; calculate_metrics_batch does not raise.
C21_PairsKeptInOrder ==
    HandedOver =>
        /\ Len(references) = Len(inputs)
        /\ Len(hypotheses) = Len(inputs)
        /\ \A i \in DOMAIN inputs :
              /\ references[i] = ExpectedPair(i)[1]
              /\ hypotheses[i] = ExpectedPair(i)[2]
        /\ ~ENABLED RaiseLengthMismatch
        /\ pc # "raised"

\* C21 witness: the adjusted run of wer is handed two different pairs, one
\* with an empty text, which the transformations and the adjustments changed
C21_Witness ==
    /\ cli_pc = "with"
    /\ pc = "call"
    /\ Len(inputs) = 2
    /\ references[1] # references[2]
    /\ refs_transformed # references_of(inputs)
    /\ references # refs_transformed
    /\ \E i \in DOMAIN hypotheses : hypotheses[i] = <<>> /\ references[i] # <<>>

====
